---- MODULE Spec2Model ----
(***************************************************************************)
(* Model of src/health_new.py: the chat handler chat_fn of create_ui, the  *)
(* group chat configured by create_health_agents (round cap, no repeated   *)
(* speaker, is_termination_msg) and the reverse scan that picks the reply. *)
(*                                                                         *)
(* A message content is a sequence of text fragments (tokens).  The        *)
(* fragments are chosen so that every substring the program searches for   *)
(* is either one whole fragment or lies inside one fragment, and so that   *)
(* no searched substring can arise across a fragment boundary: substring   *)
(* tests and str.replace on the concatenated text agree with the member    *)
(* and sub-sequence operations below.                                      *)
(***************************************************************************)
EXTENDS Integers, Sequences, FiniteSets

VARIABLES
    cache,       \* cache["user"], cache["manager"] are set (create_ui, line 839)
    history,     \* the chat history the UI hands to chat_fn and gets back
    chat,        \* user.chat_messages[manager] of the cached agents
    pc,          \* "idle", or "running" while initiate_chat is in its loop
    rnd,         \* messages the group chat has taken in during this run
    speaker,     \* the group chat's last speaker
    elig,        \* candidates of the latest speaker selection
    prev,        \* the speaker before the latest selection
    curMsg,      \* chat_fn's argument message
    roundStart,  \* Len(chat) when the current chat_fn call started its run
    result,      \* what the latest chat_fn call returned
    outcome,     \* how the latest handler call ended
    profile,     \* patient_profile.profile, the in-memory record (line 123)
    disk,        \* the content of patient_profile.json, or NoFile
    agents,      \* the roster objects created so far: transcript and snapshot
    cacheRef,    \* the roster the shared cache of create_ui points to, or 0
    sess,        \* per caller: the UI history and the running chat_fn call
    savePc,      \* per caller: the position of its save_settings call
    busy,        \* the event listeners that have a handler call running
    actor,       \* the caller whose handler took the latest step
    call,        \* the latest call of an external-lookup function: its inputs
    ret,         \* what that call returned
    rng,         \* the state of the process-wide random module
    appt         \* per thread: the running generate_appointments call

core == <<cache, history, chat, pc, rnd, speaker, elig, prev, curMsg,
          roundStart, result, outcome>>
shared == <<profile, disk, agents, cacheRef, sess, savePc, busy, actor>>
lookup == <<call, ret>>
sched == <<rng, appt>>

vars == <<cache, history, chat, pc, rnd, speaker, elig, prev, curMsg,
          roundStart, result, outcome, profile, disk, agents, cacheRef, sess,
          savePc, busy, actor, call, ret, rng, appt>>

-----------------------------------------------------------------------------
(* Bounds of the model *)

MaxSends == 2      \* chat_fn calls between two clear_chat calls
MaxChat == 5       \* messages in user.chat_messages[manager]
MaxLen == 4        \* fragments of a content in the runs that exercise the clean-up
CleanTurns == 1    \* role turns of a run in the runs that exercise the clean-up

-----------------------------------------------------------------------------
(* Text fragments *)

T988 == "988"
TWarn == "(warning sign)"
T911 == "911"
TER == "ER"
TQ == "?"
TPre == "HealthCoordinator, I've provided th"
TPharm == "e pharmacy options."
TTime == "e time."
TMed == "e medication information."
TAppt == "e appointment options."
TSG1 == "SafetyGuardrail has detect"
TSG2 == "ed a crisis."
TET1 == "EmergencyTriage has flagg"
TET2 == "ed this as urgent."
TNoCrisis == "sees no crisis"
TNoEmerg == "sees no emergency"
TToolSug == "***** Suggested tool"
TToolResp == "***** Response from calling tool"
TSp == " "
TText == "some ordinary text"
TOk == "OK."
TJson == "{tool result}"
TUserProvided == "I've provided my zip code"
TFallback == "I'm here to help. What's on your mind?"
TApology == "I apologize, I encountered an error. Please try again."

\* len() of one fragment
TokLen(t) ==
    CASE t = T988 -> 3
      [] t = TWarn -> 2
      [] t = T911 -> 3
      [] t = TER -> 2
      [] t = TQ -> 1
      [] t = TPre -> 35
      [] t = TPharm -> 19
      [] t = TTime -> 7
      [] t = TMed -> 25
      [] t = TAppt -> 22
      [] t = TSG1 -> 26
      [] t = TSG2 -> 12
      [] t = TET1 -> 25
      [] t = TET2 -> 18
      [] t = TNoCrisis -> 14
      [] t = TNoEmerg -> 17
      [] t = TToolSug -> 20
      [] t = TToolResp -> 32
      [] t = TSp -> 1
      [] t = TText -> 18
      [] t = TOk -> 3
      [] t = TJson -> 13
      [] t = TUserProvided -> 25
      [] t = TFallback -> 38
      [] t = TApology -> 54

RECURSIVE StrLen(_)
StrLen(s) == IF s = <<>> THEN 0 ELSE TokLen(Head(s)) + StrLen(Tail(s))

\* "t in content" for a searched text that is one fragment
Has(s, t) == \E k \in 1..Len(s) : s[k] = t

\* "I've provided" in content
HasProvided(s) == Has(s, TPre) \/ Has(s, TUserProvided)

-----------------------------------------------------------------------------
(* The roster *)

User == "User"
SafetyGuardrail == "SafetyGuardrail"
EmergencyTriage == "EmergencyTriage"
HealthCoordinator == "HealthCoordinator"
PharmacySpecialist == "PharmacySpecialist"
TimeSpecialist == "TimeSpecialist"
MedicationSpecialist == "MedicationSpecialist"
AppointmentSpecialist == "AppointmentSpecialist"

Specialists ==
    {PharmacySpecialist, TimeSpecialist, MedicationSpecialist, AppointmentSpecialist}

\* GroupChat(agents=[...])
GroupAgents ==
    {User, SafetyGuardrail, EmergencyTriage, HealthCoordinator} \cup Specialists

\* the names chat_fn accepts an ordinary reply from
NormalAgents == {HealthCoordinator} \cup Specialists

\* register_for_execution on each specialist
FunctionMap(a) ==
    CASE a = PharmacySpecialist -> {"get_pharmacy_locations"}
      [] a = TimeSpecialist -> {"get_current_time_info"}
      [] a = MedicationSpecialist ->
             {"check_medication_insurance", "check_drug_interactions"}
      [] a = AppointmentSpecialist ->
             {"find_in_network_hospitals", "get_appointment_availability"}
      [] OTHER -> {}

NoTool == "none"

Msg(n, c, t) == [name |-> n, content |-> c, tool |-> t]

max_round == 30

-----------------------------------------------------------------------------
(* is_termination_msg *)

\* is_termination_msg without the coordinator's question, lines 789-791
TerminatesNoQuestion(msg) ==
    \/ msg.name = SafetyGuardrail /\ Has(msg.content, T988)
    \/ msg.name = EmergencyTriage /\ Has(msg.content, TWarn) /\ Has(msg.content, T911)
    \/ HasProvided(msg.content)

is_termination_msg(msg) ==
    \/ msg.name = SafetyGuardrail /\ Has(msg.content, T988)
    \/ msg.name = EmergencyTriage /\ Has(msg.content, TWarn) /\ Has(msg.content, T911)
    \/ msg.name = HealthCoordinator /\ Has(msg.content, TQ)
    \/ HasProvided(msg.content)

-----------------------------------------------------------------------------
(* chat_fn: the scan over reversed(msgs), lines 872-907 *)

HasToolLog(s) == Has(s, TToolSug) \/ Has(s, TToolResp)

\* name == "SafetyGuardrail" and "988" in content
IsCrisis(msg) == msg.name = SafetyGuardrail /\ Has(msg.content, T988)

\* name == "EmergencyTriage" and warning sign and ("911" or "ER") in content
IsEmergency(msg) ==
    /\ msg.name = EmergencyTriage
    /\ Has(msg.content, TWarn)
    /\ (Has(msg.content, T911) \/ Has(msg.content, TER))

IsClearance(s) == Has(s, TNoCrisis) \/ Has(s, TNoEmerg)

\* the index of the message the loop breaks on, 0 when it runs to the end
RECURSIVE ScanFrom(_, _)
ScanFrom(msgs, k) ==
    IF k = 0 THEN 0
    ELSE LET m == msgs[k] IN
         IF m.name = User \/ m.content = <<>> THEN ScanFrom(msgs, k - 1)
         ELSE IF HasToolLog(m.content) THEN ScanFrom(msgs, k - 1)
         ELSE IF IsCrisis(m) THEN k
         ELSE IF IsEmergency(m) THEN k
         ELSE IF m.name \in NormalAgents
              THEN IF IsClearance(m.content) THEN ScanFrom(msgs, k - 1)
                   ELSE IF StrLen(m.content) > 10 THEN k
                   ELSE ScanFrom(msgs, k - 1)
         ELSE ScanFrom(msgs, k - 1)

Picked(msgs) == ScanFrom(msgs, Len(msgs))

-----------------------------------------------------------------------------
(* chat_fn: the clean-up of hand-off phrases, lines 912-918 *)

\* str.replace(p, ""): occurrences are removed left to right, in one pass
RECURSIVE Replace(_, _)
Replace(s, p) ==
    IF Len(s) < Len(p) THEN s
    ELSE IF SubSeq(s, 1, Len(p)) = p
         THEN Replace(SubSeq(s, Len(p) + 1, Len(s)), p)
         ELSE <<Head(s)>> \o Replace(Tail(s), p)

\* str.strip()
RECURSIVE Strip(_)
Strip(s) ==
    IF s = <<>> THEN s
    ELSE IF Head(s) = TSp THEN Strip(Tail(s))
    ELSE IF s[Len(s)] = TSp THEN Strip(SubSeq(s, 1, Len(s) - 1))
    ELSE s

\* the six phrases, in the order of the six replace calls
HandoffPhrases ==
    << <<TPre, TPharm>>, <<TPre, TTime>>, <<TPre, TMed>>, <<TPre, TAppt>>,
       <<TSG1, TSG2>>, <<TET1, TET2>> >>

RECURSIVE CleanFrom(_, _)
CleanFrom(s, k) ==
    IF k > Len(HandoffPhrases) THEN s
    ELSE CleanFrom(Strip(Replace(s, HandoffPhrases[k])), k + 1)

CleanUp(s) == CleanFrom(s, 1)

\* the scan without its break statements (lines 888, 895, 907): every
\* message the loop does not skip sets its flag
ChatFnResultNoBreak(msgs) ==
    LET k == Picked(msgs)
        response_text == IF k = 0 THEN <<TFallback>> ELSE msgs[k].content
        Seen(m) == m.name # User /\ m.content # <<>> /\ ~HasToolLog(m.content)
    IN  [text |-> CleanUp(response_text),
         crisis |-> \E j \in 1..Len(msgs) : Seen(msgs[j]) /\ IsCrisis(msgs[j]),
         emergency |-> \E j \in 1..Len(msgs) :
                           Seen(msgs[j]) /\ IsEmergency(msgs[j])]

\* what chat_fn returns after a run that raised nothing
ChatFnResult(msgs) ==
    LET k == Picked(msgs)
        response_text == IF k = 0 THEN <<TFallback>> ELSE msgs[k].content
    IN  [text |-> CleanUp(response_text),
         crisis |-> k # 0 /\ IsCrisis(msgs[k]),
         emergency |-> k # 0 /\ ~IsCrisis(msgs[k]) /\ IsEmergency(msgs[k])]

\* what chat_fn returns from its except branch
ApologyResult == [text |-> <<TApology>>, crisis |-> FALSE, emergency |-> FALSE]

UserEntry(c) == [role |-> "user", content |-> c]
AssistantEntry(c) == [role |-> "assistant", content |-> c]

-----------------------------------------------------------------------------
(* The group chat: GroupChat(max_round=30, speaker_selection_method="auto",  *)
(* allow_repeat_speaker=False) run by GroupChatManager(is_termination_msg)   *)

NoSpeaker == "nobody"

\* RoundOver without the round cap
RoundOverNoCap(m, n) == is_termination_msg(m)

\* the loop of the run ends on a terminating message or on the round cap;
\* n messages have been taken in, the newest being m
RoundOver(m, n) == is_termination_msg(m) \/ n = max_round

\* Candidates with allow_repeat_speaker left on
CandidatesRepeat(last, lastMsg) ==
    IF lastMsg.tool # NoTool
    THEN {a \in GroupAgents : lastMsg.tool \in FunctionMap(a)}
    ELSE GroupAgents

\* who may be selected after `last` spoke lastMsg: a pending tool call goes to
\* the one agent whose function map holds the tool; otherwise every agent of
\* the group but the last speaker
Candidates(last, lastMsg) ==
    IF lastMsg.tool # NoTool
    THEN LET ex == {a \in GroupAgents : lastMsg.tool \in FunctionMap(a)}
             fm == {a \in GroupAgents : FunctionMap(a) # {}}
         IN  IF Cardinality(ex) = 1 THEN ex
             ELSE IF ex = {} THEN fm \ {last}
             ELSE ex \ {last}
    ELSE GroupAgents \ {last}

\* what the generation service may hand back as a role's turn: the formats
\* the role's system message asks for, and departures from them
Say(c) == [content |-> c, tool |-> NoTool]
Call(t) == [content |-> <<>>, tool |-> t]

Repertoire(a) ==
    CASE a = SafetyGuardrail ->
             {Say(<<TText, T988, TSG1, TSG2>>), Say(<<TNoCrisis>>),
              Say(<<TNoCrisis, T988>>), Say(<<T988, TToolSug>>)}
      [] a = EmergencyTriage ->
             {Say(<<TWarn, T911, TET1, TET2>>), Say(<<TWarn, TER>>),
              Say(<<TNoEmerg>>)}
      [] a = HealthCoordinator ->
             {Say(<<TText, TQ>>), Say(<<TText>>), Say(<<TOk>>)}
      [] a = PharmacySpecialist ->
             {Say(<<TText, TSp, TPre, TPharm>>)} \cup {Call(t) : t \in FunctionMap(a)}
      [] a = TimeSpecialist ->
             {Say(<<TText, TSp, TPre, TTime>>)} \cup {Call(t) : t \in FunctionMap(a)}
      [] a = MedicationSpecialist ->
             {Say(<<TText, TSp, TPre, TMed>>)} \cup {Call(t) : t \in FunctionMap(a)}
      [] a = AppointmentSpecialist ->
             {Say(<<TText, TSp, TPre, TAppt>>)} \cup {Call(t) : t \in FunctionMap(a)}
      [] OTHER -> {}

\* the messages the user types
UserTexts == {<<TText>>, <<TUserProvided>>}

\* a run in which nothing the roles say ends the round
CapRoles == {SafetyGuardrail, HealthCoordinator}
CapRepertoire(a) ==
    CASE a = SafetyGuardrail -> {Say(<<TNoCrisis>>)}
      [] a = HealthCoordinator -> {Say(<<TText>>)}
      [] OTHER -> {}
CapTexts == {<<TText>>}

-----------------------------------------------------------------------------
(* Handlers *)

CoreInit ==
    /\ cache = FALSE
    /\ history = <<>>
    /\ chat = <<>>
    /\ pc = "idle"
    /\ rnd = 0
    /\ speaker = NoSpeaker
    /\ elig = {}
    /\ prev = NoSpeaker
    /\ curMsg = <<>>
    /\ roundStart = 0
    /\ result = [text |-> <<>>, crisis |-> FALSE, emergency |-> FALSE]
    /\ outcome = "none"

-----------------------------------------------------------------------------
(* The profile store (PatientProfile, lines 26-123) and the handlers of     *)
(* create_ui as several callers of the one UI run them.  Every caller's     *)
(* event goes to the same closures of create_ui: the dictionary cache       *)
(* (line 839) and the module-level patient_profile (line 123) exist once.   *)
(* The text of a settings field is a sequence of fragments, as a content.   *)

MaxTalk == 2       \* chat_fn calls of one caller
MaxRosters == 3    \* create_health_agents calls
MaxSaves == 2      \* save_settings calls

Callers == {"c1", "c2"}
NoCaller == "nobody"

TComma == ","
DefaultZone == "America/Los_Angeles"
DetectedZone == "Europe/Paris"

\* _load, lines 36-43: the record returned when the file does not exist
Defaults ==
    [name |-> <<"Patient A">>, home_city |-> <<"San Jose, CA">>,
     zip_code |-> <<"95054">>, insurance |-> <<"United Health Care">>,
     allergies |-> <<>>, timezone |-> DefaultZone]

\* what patient_profile.json may hold when the program starts: nothing, a
\* record written by an earlier run, a record without the key timezone
StoredRecord ==
    [name |-> <<"Patient A">>, home_city |-> <<"Fremont, CA">>,
     zip_code |-> <<"94536">>, insurance |-> <<"Kaiser">>,
     allergies |-> <<<<"latex">>>>, timezone |-> DefaultZone]
OldRecord ==
    [name |-> <<"Patient A">>, home_city |-> <<"Fremont, CA">>,
     zip_code |-> <<"94536">>, insurance |-> <<"Kaiser">>,
     allergies |-> <<>>]
InitialFiles == {<<>>, <<StoredRecord>>, <<OldRecord>>}

\* _load, lines 33-43; the file is a sequence of at most one record
_load(file) == IF file # <<>> THEN file[1] ELSE Defaults

\* _detect_timezone, lines 45-70: the zone one of the two services reports,
\* or the default; every path sets the key
WithZone(rec, tz) ==
    [k \in DOMAIN rec \cup {"timezone"} |->
        IF k = "timezone" THEN tz ELSE rec[k]]

\* text.split(",")
RECURSIVE Split(_)
Split(s) ==
    IF \A i \in 1..Len(s) : s[i] # TComma THEN <<s>>
    ELSE LET i == CHOOSE j \in 1..Len(s) :
                     s[j] = TComma /\ \A k \in 1..(j - 1) : s[k] # TComma
         IN  <<SubSeq(s, 1, i - 1)>> \o Split(SubSeq(s, i + 1, Len(s)))

\* [a.strip() for a in parts if a.strip()], line 115
RECURSIVE StripAll(_)
StripAll(parts) ==
    IF parts = <<>> THEN <<>>
    ELSE IF Strip(Head(parts)) = <<>> THEN StripAll(Tail(parts))
         ELSE <<Strip(Head(parts))>> \o StripAll(Tail(parts))

\* the four setters without their _save, lines 103, 107, 111, 115-116
set_home_city(rec, city) == [rec EXCEPT !.home_city = Strip(city)]
set_zip_code(rec, zip_code) == [rec EXCEPT !.zip_code = Strip(zip_code)]
set_insurance(rec, insurance) == [rec EXCEPT !.insurance = Strip(insurance)]
set_allergies_from_text(rec, text) ==
    [rec EXCEPT !.allergies = StripAll(Split(text))]

\* _save, lines 98-100: the file becomes the in-memory record
_save(rec) == <<rec>>

\* what a caller may type into the four boxes of the settings tab
SettingsForms ==
    { [city |-> <<TSp, "Austin, TX", TSp>>, zip_code |-> <<"73301">>,
       insurance |-> <<"Aetna", TSp>>,
       allergies |-> <<"penicillin", TComma, TSp, "aspirin", TComma>>],
      [city |-> <<"Boston, MA">>, zip_code |-> <<TSp, "02108">>,
       insurance |-> <<"Cigna">>, allergies |-> <<TSp>>] }

\* the profile after one save_settings call has run alone, lines 1010-1013
Saved(rec, form) ==
    set_allergies_from_text(
        set_insurance(
            set_zip_code(set_home_city(rec, form.city), form.zip_code),
            form.insurance),
        form.allergies)

\* create_health_agents, lines 551-831: a new roster with an empty
\* transcript; the roles' instructions hold the profile's fields as they are
\* read at lines 641-643, 686, 730, 754
NewRoster(rec) ==
    [chat |-> <<>>,
     info |-> [home_city |-> rec.home_city, zip_code |-> rec.zip_code,
               insurance |-> rec.insurance, allergies |-> rec.allergies]]

\* the event listeners of create_ui: send.click and msg.submit run chat_fn
\* (lines 989-990), clear_btn.click runs clear_chat (991), save_btn.click
\* runs save_settings (1017-1021)
ChatListeners == {"send.click", "msg.submit"}
SaveListener == "save_btn.click"

\* no listener is given a concurrency limit and the queue is not configured
\* (lines 989-991, 1017-1021, 1077): the UI runs at most one call of a
\* listener at a time, whoever the callers are
ListenerFreeAlways(l) == TRUE
ListenerFree(l) == l \notin busy

IdleSession == [history |-> <<>>, pc |-> "idle", ref |-> 0, h0 |-> <<>>,
                listener |-> "none"]
NoForm == [city |-> <<>>, zip_code |-> <<>>, insurance |-> <<>>,
           allergies |-> <<>>]
IdleSave == [step |-> 0, form |-> NoForm, done |-> 0]

\* the state after PatientProfile() at line 123 and create_ui()
SharedInit ==
    /\ \E file \in InitialFiles :
         LET rec == _load(file)
         IN  IF "timezone" \in DOMAIN rec
             THEN profile = rec /\ disk = file
             ELSE \E tz \in {DetectedZone, DefaultZone} :
                    /\ profile = WithZone(rec, tz)
                    /\ disk = _save(WithZone(rec, tz))
    /\ agents = <<>>
    /\ cacheRef = 0
    /\ sess = [c \in Callers |-> IdleSession]
    /\ savePc = [c \in Callers |-> IdleSave]
    /\ busy = {}
    /\ actor = NoCaller

\* the same, started with the file of an earlier run in place
SharedQuiet ==
    /\ profile = StoredRecord
    /\ disk = <<StoredRecord>>
    /\ agents = <<>>
    /\ cacheRef = 0
    /\ sess = [c \in Callers |-> IdleSession]
    /\ savePc = [c \in Callers |-> IdleSave]
    /\ busy = {}
    /\ actor = NoCaller

\* chat_fn of caller c up to the first message of the run, lines 846-862:
\* get_agents(reset=is_new) replaces the cached roster when the caller's
\* history is empty or the cache is empty, and initiate_chat takes the
\* message into the transcript of the cached roster
CallerSends(c) ==
    /\ sess[c].pc = "idle"
    /\ Len(sess[c].history) < 2 * MaxTalk
    /\ \E l \in ChatListeners :
         /\ ListenerFree(l)
         /\ LET is_new == sess[c].history = <<>>
                fresh == is_new \/ cacheRef = 0
                pool == IF fresh THEN Append(agents, NewRoster(profile))
                        ELSE agents
                ref == IF fresh THEN Len(agents) + 1 ELSE cacheRef
                base == IF is_new THEN <<>> ELSE pool[ref].chat
            IN  /\ fresh => Len(agents) < MaxRosters
                /\ agents' = [pool EXCEPT ![ref].chat =
                                 Append(base, [name |-> User, by |-> c])]
                /\ cacheRef' = ref
                /\ sess' = [sess EXCEPT ![c] =
                              [history |-> sess[c].history, pc |-> "running",
                               ref |-> ref, h0 |-> sess[c].history,
                               listener |-> l]]
                /\ busy' = busy \cup {l}
    /\ actor' = c
    /\ UNCHANGED <<profile, disk, savePc, core, lookup, sched>>

\* the rest of that call when the run ends normally, lines 862-925: the
\* roles' messages join the transcript of the roster the call holds, and the
\* call returns the history it was given plus the exchange
CallerGetsReply(c) ==
    /\ sess[c].pc = "running"
    /\ agents' = [agents EXCEPT ![sess[c].ref].chat =
                     Append(@, [name |-> HealthCoordinator, by |-> c])]
    /\ sess' = [sess EXCEPT ![c].pc = "idle",
                            ![c].history = sess[c].h0 \o
                                <<UserEntry(<<TText>>), AssistantEntry(<<TOk>>)>>]
    /\ busy' = busy \ {sess[c].listener}
    /\ actor' = c
    /\ UNCHANGED <<profile, disk, cacheRef, savePc, core, lookup, sched>>

\* the rest of that call when the run raises, lines 927-934
CallerGetsApology(c) ==
    /\ sess[c].pc = "running"
    /\ sess' = [sess EXCEPT ![c].pc = "idle",
                            ![c].history = sess[c].h0 \o
                                <<UserEntry(<<TText>>),
                                  AssistantEntry(<<TApology>>)>>]
    /\ busy' = busy \ {sess[c].listener}
    /\ actor' = c
    /\ UNCHANGED <<profile, disk, agents, cacheRef, savePc, core, lookup, sched>>

\* clear_chat of caller c, lines 936-938: the shared cache is emptied and
\* the caller's history becomes empty
CallerClears(c) ==
    /\ sess[c].pc = "idle"
    /\ sess[c].history # <<>>
    /\ cacheRef' = 0
    /\ sess' = [sess EXCEPT ![c].history = <<>>]
    /\ actor' = c
    /\ UNCHANGED <<profile, disk, agents, savePc, busy, core, lookup, sched>>

\* save_settings of caller c is started by the UI, line 1017
SaveStarts(c) ==
    /\ savePc[c].step = 0
    /\ savePc[c].done < MaxSaves
    /\ ListenerFree(SaveListener)
    /\ \E form \in SettingsForms :
         savePc' = [savePc EXCEPT ![c] =
                       [step |-> 1, form |-> form, done |-> savePc[c].done]]
    /\ busy' = busy \cup {SaveListener}
    /\ actor' = c
    /\ UNCHANGED <<profile, disk, agents, cacheRef, sess, core, lookup, sched>>

\* one step of save_settings, lines 1010-1015: each setter writes its field
\* (odd steps) and then saves the file (even steps); the last step empties
\* the shared cache and returns
SaveStep(c) ==
    /\ savePc[c].step # 0
    /\ LET k == savePc[c].step
           form == savePc[c].form
       IN  /\ profile' = IF k = 1 THEN set_home_city(profile, form.city)
                         ELSE IF k = 3 THEN set_zip_code(profile, form.zip_code)
                         ELSE IF k = 5 THEN set_insurance(profile, form.insurance)
                         ELSE IF k = 7
                              THEN set_allergies_from_text(profile, form.allergies)
                         ELSE profile
           /\ disk' = IF k \in {2, 4, 6, 8} THEN _save(profile) ELSE disk
           /\ cacheRef' = IF k = 9 THEN 0 ELSE cacheRef
           /\ savePc' = [savePc EXCEPT ![c].step = IF k = 9 THEN 0 ELSE k + 1,
                                       ![c].done = IF k = 9 THEN @ + 1 ELSE @]
           /\ busy' = IF k = 9 THEN busy \ {SaveListener} ELSE busy
    /\ actor' = c
    /\ UNCHANGED <<agents, sess, core, lookup, sched>>

-----------------------------------------------------------------------------
(* The external lookups of HealthcareAPIs, lines 137-400.  A response of a  *)
(* service is what requests.get does (it raises, or it returns a status and *)
(* a body) and what the body parses to.  A try body ends by a return, by an *)
(* exception, or by falling through to the statement after the try.         *)

\* a JSON leaf: a number or a string
Num(n) == [isnum |-> TRUE, n |-> n, s |-> ""]
Str(x) == [isnum |-> FALSE, n |-> 0, s |-> x]

Returns(v) == [how |-> "return", value |-> <<v>>]
Raises == [how |-> "raise", value |-> <<>>]
FallsThrough == [how |-> "pass", value |-> <<>>]

\* what a call hands to its caller: a value or an exception
Gives(v) == [raised |-> FALSE, value |-> <<v>>]
Propagates == [raised |-> TRUE, value |-> <<>>]

\* try: body / except: (print) / then the statement after the try
Unguarded(body, after) ==
    IF body.how = "return" THEN Gives(body.value[1])
    ELSE IF body.how = "raise" THEN Propagates
    ELSE Gives(after)
TryExcept(body, after) ==
    IF body.how = "return" THEN Gives(body.value[1]) ELSE Gives(after)

\* a response: fault is a timeout or a connection error raised by
\* requests.get; json tells whether response.json() parses the body
Timeout == [fault |-> TRUE, status |-> 0, json |-> FALSE, body |-> <<>>]
ErrorPage(st) == [fault |-> FALSE, status |-> st, json |-> FALSE, body |-> <<>>]
Json(st, b) == [fault |-> FALSE, status |-> st, json |-> TRUE, body |-> <<b>>]

\* a parsed body is an object (a dict) with the listed keys, or an array
Object(fields) == [kind |-> "object", items |-> <<>>, fields |-> <<fields>>]
Array(items) == [kind |-> "array", items |-> items, fields |-> <<>>]
IsObject(b) == b.kind = "object"
HasKey(b, k) == IsObject(b) /\ k \in DOMAIN b.fields[1]

\* ---- get_route, lines 273-290 ----

\* round((metres / 1000) * 0.621371, 1) in tenths of a mile, and
\* round(seconds / 60, 0) in minutes, in integer arithmetic (the factor is
\* cut to five digits so that the products stay within 32 bits)
Tenths(metres) == (metres * 62137 + 5000000) \div 10000000
Minutes(seconds) == (seconds + 30) \div 60

NoRoute == [distance_mi |-> Str("N/A"), drive_time_min |-> Str("N/A")]

RouteResponses ==
    { Timeout, ErrorPage(502),
      Json(400, Object([code |-> Str("InvalidQuery")])),
      Json(200, Array(<<>>)),
      Json(200, Object([code |-> Str("NoRoute"), routes |-> <<>>])),
      Json(200, Object([code |-> Str("Ok"),
                        routes |-> <<[duration |-> Num(600)]>>])),
      Json(200, Object([code |-> Str("Ok"),
                        routes |-> <<[distance |-> Str("far"),
                                      duration |-> Num(600)]>>])),
      Json(200, Object([code |-> Str("Ok"),
                        routes |-> <<[distance |-> Num(12000),
                                      duration |-> Num(900)]>>])),
      Json(200, Object([code |-> Str("Ok"),
                        routes |-> <<[distance |-> Num(800),
                                      duration |-> Num(95)]>>])) }

\* the try body, lines 275-287
get_route_body(resp) ==
    IF resp.fault \/ ~resp.json THEN Raises
    ELSE LET data == resp.body[1]
         IN  IF ~IsObject(data) THEN Raises
             ELSE IF ~HasKey(data, "routes") THEN FallsThrough
             ELSE IF data.fields[1].routes = <<>> THEN FallsThrough
             ELSE LET route == data.fields[1].routes[1]
                  IN  IF "distance" \notin DOMAIN route
                         \/ "duration" \notin DOMAIN route THEN Raises
                      ELSE IF ~route.distance.isnum \/ ~route.duration.isnum
                           THEN Raises
                      ELSE Returns([distance_mi |-> Num(Tenths(route.distance.n)),
                                    drive_time_min |->
                                        Num(Minutes(route.duration.n))])

get_route_unguarded(resp) == Unguarded(get_route_body(resp), NoRoute)
get_route(resp) == TryExcept(get_route_body(resp), NoRoute)

\* ---- geocode, lines 137-159 ----

Digits == {"0", "1", "2", "3", "4", "5", "6", "7", "8", "9"}
isdigit(s) == s # <<>> /\ \A i \in 1..Len(s) : s[i] \in Digits

\* the locations, character by character
Locations ==
    { <<"9", "5", "0", "5", "4">>, <<" ", "9", "5", "0", "5", "4">>,
      <<"9", "5", "0", "5">>, <<"S", "J">>, <<>> }
USA == <<",", " ", "U", "S", "A">>

\* float() of a JSON leaf: a number, or a string that spells one
Spelled == {"37.35", "-121.95"}
CanFloat(x) == x.isnum \/ x.s \in Spelled
\* the float, in hundredths of a degree
float(x) ==
    IF x.isnum THEN x.n * 100
    ELSE IF x.s = "37.35" THEN 3735 ELSE 0 - 12195

None == <<>>
Some(v) == <<v>>

GeoResponses ==
    { Timeout, ErrorPage(403),
      Json(200, Object([error |-> Str("Unable to geocode")])),
      Json(200, Array(<<>>)),
      Json(200, Array(<<[lat |-> Str("37.35")]>>)),
      Json(200, Array(<<[lat |-> Str("north"), lon |-> Str("-121.95")]>>)),
      Json(200, Array(<<[lat |-> Str("37.35"), lon |-> Str("-121.95")]>>)),
      Json(200, Array(<<[lat |-> Str("37.35"), lon |-> Str("-121.95"),
                         display_name |-> Str("Santa Clara")]>>)) }

\* the try body, lines 139-156; the query is the location, with ", USA"
\* after five digits
geocode_body(location, resp) ==
    LET query == IF isdigit(Strip(location)) /\ Len(Strip(location)) = 5
                 THEN location \o USA ELSE location
    IN  IF resp.fault \/ ~resp.json THEN Raises
        ELSE LET data == resp.body[1]
             IN  IF IsObject(data)
                 THEN IF DOMAIN data.fields[1] = {} THEN FallsThrough
                      ELSE Raises
                 ELSE IF data.items = <<>> THEN FallsThrough
                 ELSE LET first == data.items[1]
                      IN  IF "lat" \notin DOMAIN first THEN Raises
                          ELSE IF ~CanFloat(first.lat) THEN Raises
                          ELSE IF "lon" \notin DOMAIN first THEN Raises
                          ELSE IF ~CanFloat(first.lon) THEN Raises
                          ELSE Returns(Some(
                                 [lat |-> float(first.lat), lon |-> float(first.lon),
                                  display |->
                                      IF "display_name" \in DOMAIN first
                                      THEN <<first.display_name.s>>
                                      ELSE query]))

geocode(location, resp) == TryExcept(geocode_body(location, resp), None)

\* ---- check_medication_coverage, lines 299-357 ----

\* str.lower() of one fragment, and of a text
LowerTok(t) ==
    CASE t = "United" -> "united"
      [] t = "Healthcare" -> "healthcare"
      [] t = "Blue" -> "blue"
      [] t = "Cross" -> "cross"
      [] t = "AETNA" -> "aetna"
      [] t = "Acme" -> "acme"
      [] t = "Mutual" -> "mutual"
      [] t = "HUMAN" -> "human"
      [] t = "PRESCRIPTION" -> "prescription"
      [] t = "OTC" -> "otc"
      [] t = "DRUG" -> "drug"
      [] t = "VACCINE" -> "vaccine"
      [] OTHER -> t
Lower(s) == [i \in 1..Len(s) |-> LowerTok(s[i])]

\* "p in s" for texts made of fragments
Within(p, s) ==
    \E i \in 1..(Len(s) - Len(p) + 1) : SubSeq(s, i, i + Len(p) - 1) = p

\* the names of line 321
MajorInsurers ==
    { <<"united">>, <<"blue", TSp, "cross">>, <<"aetna">>, <<"cigna">>,
      <<"humana">>, <<"kaiser">>, <<"medicare">>, <<"medicaid">> }

Insurances ==
    { <<"United", "Healthcare">>, <<"Blue", TSp, "Cross">>, <<"AETNA">>,
      <<"kaiser">>, <<"Acme", TSp, "Mutual">>, <<"Blue", "Cross">>, <<>> }
Medications == {<<"ibuprofen">>, <<"lisinopril">>}

RxType == <<"HUMAN", TSp, "PRESCRIPTION", TSp, "DRUG">>
OtcType == <<"HUMAN", TSp, "OTC", TSp, "DRUG">>
BothType == <<"PRESCRIPTION", TSp, "OTC">>
VaccineType == <<"VACCINE">>

Label(openfda) == Json(200, Object([results |-> <<openfda>>]))

DrugResponses ==
    { Timeout, ErrorPage(500),
      Json(404, Object([error |-> Str("NOT_FOUND")])),
      ErrorPage(200),
      Json(200, Array(<<>>)),
      Json(200, Object([results |-> <<>>])),
      Label([product_type |-> <<>>]),
      Label([product_type |-> <<RxType>>,
             pharm_class_epc |-> <<<<"ACE Inhibitor">>>>]),
      Label([product_type |-> <<RxType>>]),
      Label([product_type |-> <<OtcType>>,
             pharm_class_epc |-> <<<<"NSAID">>>>]),
      Label([product_type |-> <<BothType>>, pharm_class_epc |-> <<>>]),
      Label([product_type |-> <<VaccineType>>]),
      Label([pharm_class_epc |-> <<<<"NSAID">>>>]) }

Uncertain(medication) ==
    [medication |-> medication, covered |-> "Unknown",
     copay |-> "Contact provider", prescription_required |-> TRUE]

\* the classification of lines 312-314
ProductType(openfda) ==
    Lower(IF "product_type" \in DOMAIN openfda THEN openfda.product_type[1]
          ELSE <<>>)
IsRx(openfda) == Within(<<"prescription">>, ProductType(openfda))
IsOtc(openfda) == Within(<<"otc">>, ProductType(openfda)) \/ ~IsRx(openfda)
DrugClass(openfda) ==
    IF "pharm_class_epc" \in DOMAIN openfda /\ openfda.pharm_class_epc # <<>>
    THEN openfda.pharm_class_epc[1] ELSE <<"Unknown">>
IsMajor(insurance) == \E ins \in MajorInsurers : Within(ins, Lower(insurance))

\* the three answers of lines 323-346, the major insurers asked first
CoverageMajorFirst(insurance, medication, openfda) ==
    IF IsMajor(insurance)
    THEN [medication |-> medication, covered |-> "Yes",
          copay |-> "$10-$50 (varies by plan tier)",
          drug_class |-> DrugClass(openfda), prescription_required |-> TRUE]
    ELSE IF IsOtc(openfda)
    THEN [medication |-> medication, covered |-> "OTC - Generally not covered",
          copay |-> "$0-$15 (out of pocket)",
          drug_class |-> DrugClass(openfda), prescription_required |-> FALSE]
    ELSE [medication |-> medication, covered |-> "Unknown",
          copay |-> "Contact provider", drug_class |-> DrugClass(openfda),
          prescription_required |-> IsRx(openfda)]

\* the three answers of lines 323-346
Coverage(insurance, medication, openfda) ==
    IF IsOtc(openfda)
    THEN [medication |-> medication, covered |-> "OTC - Generally not covered",
          copay |-> "$0-$15 (out of pocket)",
          drug_class |-> DrugClass(openfda), prescription_required |-> FALSE]
    ELSE IF IsMajor(insurance)
    THEN [medication |-> medication, covered |-> "Yes",
          copay |-> "$10-$50 (varies by plan tier)",
          drug_class |-> DrugClass(openfda), prescription_required |-> TRUE]
    ELSE [medication |-> medication, covered |-> "Unknown",
          copay |-> "Contact provider", drug_class |-> DrugClass(openfda),
          prescription_required |-> IsRx(openfda)]

\* the try body, lines 300-347
coverage_body(insurance, medication, resp) ==
    IF resp.fault THEN Raises
    ELSE IF resp.status # 200 THEN FallsThrough
    ELSE IF ~resp.json THEN Raises
    ELSE LET data == resp.body[1]
         IN  IF ~IsObject(data) THEN Raises
             ELSE IF ~HasKey(data, "results") THEN FallsThrough
             ELSE IF data.fields[1].results = <<>> THEN FallsThrough
             ELSE LET openfda == data.fields[1].results[1]
                  IN  IF "product_type" \in DOMAIN openfda
                         /\ openfda.product_type = <<>> THEN Raises
                      ELSE Returns(Coverage(insurance, medication, openfda))

check_medication_coverage(insurance, medication, resp) ==
    TryExcept(coverage_body(insurance, medication, resp), Uncertain(medication))

\* ---- get_drug_interactions, lines 359-400 ----

Take(s, n) == SubSeq(s, 1, IF Len(s) < n THEN Len(s) ELSE n)

RECURSIVE Flatten(_)
Flatten(ss) == IF ss = <<>> THEN <<>> ELSE Head(ss) \o Flatten(Tail(ss))

\* a concept of an interaction: a dict that may name the drug, or no dict
Concept(name) == [dict |-> TRUE, name |-> name]
NotAConcept == [dict |-> FALSE, name |-> <<>>]

\* the entries of the answer of the interaction service
Mild == [interactionConcept |-> <<Concept(<<"ibuprofen">>), Concept(<<"warfarin">>)>>,
         severity |-> <<"high">>, description |-> <<"bleeding risk">>]
Bare == [interactionConcept |-> <<Concept(<<"ibuprofen">>)>>]
Nameless == [interactionConcept |-> <<Concept(<<"ibuprofen">>), Concept(<<>>)>>,
             severity |-> <<"N/A">>]
Broken == [interactionConcept |-> <<Concept(<<"ibuprofen">>), NotAConcept>>]

Found(rxcui) ==
    Json(200, Object([drugGroup |-> [conceptProperties |-> <<[rxcui |-> rxcui]>>]]))
DrugSearchResponses ==
    { Timeout, ErrorPage(503), ErrorPage(200), Json(200, Array(<<>>)),
      Json(200, Object([drugGroup |-> [name |-> <<"x">>]])),
      Json(200, Object([drugGroup |-> [conceptProperties |-> <<[name |-> <<"x">>]>>]])),
      Found(<<"5640">>) }

Interactions(types) == Json(200, Object([interactionTypeGroup |-> <<types>>]))
InteractionResponses ==
    { Timeout, ErrorPage(500), ErrorPage(200),
      Json(200, Object([nlmDisclaimer |-> <<"text">>])),
      Interactions(<<>>),
      Interactions(<<<<Mild>>>>),
      Interactions(<<<<Mild, Bare>>, <<Nameless>>>>),
      Interactions(<<<<Mild>>, <<Broken>>>>),
      Interactions(<<<<Mild, Mild>>, <<Mild, Mild>>, <<Mild, Bare>>>>),
      Interactions(<<<<Mild>>, <<Mild>>, <<Mild>>, <<Mild>>, <<Mild>>, <<Broken>>>>) }

\* one entry of the answer, lines 389-393
WellFormed(e) ==
    ("interactionConcept" \in DOMAIN e /\ Len(e.interactionConcept) > 1)
        => e.interactionConcept[2].dict
Interaction(e) ==
    [drug2 |-> IF "interactionConcept" \in DOMAIN e
                  /\ Len(e.interactionConcept) > 1
                  /\ e.interactionConcept[2].name # <<>>
               THEN e.interactionConcept[2].name ELSE <<"Unknown">>,
     severity |-> IF "severity" \in DOMAIN e THEN e.severity ELSE <<"Unknown">>,
     description |-> IF "description" \in DOMAIN e THEN e.description
                     ELSE <<"No description">>]

\* the try body, lines 360-397
interactions_body(resp, resp2) ==
    IF resp.fault THEN Raises
    ELSE IF resp.status # 200 THEN Returns(<<>>)
    ELSE IF ~resp.json THEN Raises
    ELSE LET data == resp.body[1]
         IN  IF ~IsObject(data) THEN Raises
             ELSE LET drug_group == IF HasKey(data, "drugGroup")
                                    THEN data.fields[1].drugGroup
                                    ELSE [none |-> <<>>]
                      concept_properties ==
                          IF "conceptProperties" \in DOMAIN drug_group
                          THEN drug_group.conceptProperties ELSE <<>>
                  IN  IF concept_properties = <<>> THEN Returns(<<>>)
                      ELSE IF "rxcui" \notin DOMAIN concept_properties[1]
                      THEN Returns(<<>>)
                      ELSE IF resp2.fault THEN Raises
                      ELSE IF resp2.status # 200 THEN Returns(<<>>)
                      ELSE IF ~resp2.json THEN Raises
                      ELSE LET d2 == resp2.body[1]
                           IN  IF ~IsObject(d2) THEN Raises
                               ELSE LET groups ==
                                        IF HasKey(d2, "interactionTypeGroup")
                                        THEN d2.fields[1].interactionTypeGroup
                                        ELSE <<>>
                                        entries ==
                                            Flatten([i \in 1..Len(Take(groups, 1)) |->
                                                Flatten(Take(groups[i], 5))])
                                    IN  IF \E i \in 1..Len(entries) :
                                               ~WellFormed(entries[i])
                                        THEN Raises
                                        ELSE Returns(Take(
                                               [i \in 1..Len(entries) |->
                                                   Interaction(entries[i])], 5))

get_drug_interactions(resp, resp2) ==
    TryExcept(interactions_body(resp, resp2), <<>>)

\* ---- _parse_opening_hours, lines 201-243; a text is its characters ----

EnDash == "<en dash>"
At(s, i) == IF i \in 1..Len(s) THEN s[i] ELSE ""
IsDigit(c) == c \in Digits
IsDash(c) == c \in {"-", EnDash}

LowerChar(c) ==
    CASE c = "M" -> "m" [] c = "F" -> "f" [] c = "S" -> "s" [] OTHER -> c
LowerChars(s) == [i \in 1..Len(s) |-> LowerChar(s[i])]

RECURSIVE SkipSpaces(_, _)
SkipSpaces(s, i) == IF At(s, i) = " " THEN SkipSpaces(s, i + 1) ELSE i

\* :?(\d{2})?\s* from position j, the longer alternatives first; the
\* result is the position the dash must be at, or 0
RECURSIVE FirstDash(_, _)
FirstDash(s, tries) ==
    IF tries = <<>> THEN 0
    ELSE LET k == SkipSpaces(s, Head(tries))
         IN  IF IsDash(At(s, k)) /\ IsDigit(At(s, SkipSpaces(s, k + 1)))
             THEN k ELSE FirstDash(s, Tail(tries))
DashAfter(s, j) ==
    LET min(p) == IF IsDigit(At(s, p)) /\ IsDigit(At(s, p + 1))
                  THEN <<p + 2, p>> ELSE <<p>>
    IN  FirstDash(s, IF At(s, j) = ":" THEN min(j + 1) \o min(j) ELSE min(j))

\* (\d{1,2}) at position i followed by the rest of the pattern: the length
\* of the first group, or 0
GroupLen(s, i) ==
    IF IsDigit(At(s, i)) /\ IsDigit(At(s, i + 1)) /\ DashAfter(s, i + 2) # 0
    THEN 2
    ELSE IF IsDigit(At(s, i)) /\ DashAfter(s, i + 1) # 0 THEN 1
    ELSE 0

DigitValue(c) ==
    CASE c = "0" -> 0 [] c = "1" -> 1 [] c = "2" -> 2 [] c = "3" -> 3
      [] c = "4" -> 4 [] c = "5" -> 5 [] c = "6" -> 6 [] c = "7" -> 7
      [] c = "8" -> 8 [] c = "9" -> 9
RECURSIVE int(_)
int(s) == IF s = <<>> THEN 0 ELSE int(SubSeq(s, 1, Len(s) - 1)) * 10
                                   + DigitValue(s[Len(s)])

\* re.search(time_pattern, opening_hours): no match, or groups 1 and 3
Search(s) ==
    LET starts == {i \in 1..Len(s) : GroupLen(s, i) # 0}
    IN  IF starts = {} THEN <<>>
        ELSE LET i == CHOOSE x \in starts : \A y \in starts : x <= y
                 n == GroupLen(s, i)
                 g == SkipSpaces(s, DashAfter(s, i + n) + 1)
                 m == IF IsDigit(At(s, g + 1)) THEN 2 ELSE 1
             IN  <<SubSeq(s, i, i + n - 1), SubSeq(s, g, g + m - 1)>>

\* f"{hour:02d}:00"
DigitChar(d) == CHOOSE c \in Digits : DigitValue(c) = d
Clock(hour) == <<DigitChar(hour \div 10), DigitChar(hour % 10), ":", "0", "0">>

AlwaysOpen == <<"2", "4", "/", "7">>

\* the opening hours of the map data
HoursTexts ==
    { AlwaysOpen,
      <<"M", "o", "-", "S", "u", " ", "2", "4", "/", "7">>,
      <<"0", "8", ":", "0", "0", "-", "2", "2", ":", "0", "0">>,
      <<"2", "2", ":", "0", "0", "-", "0", "6", ":", "0", "0">>,
      <<"M", "o", "-", "F", "r", " ", "0", "9", ":", "0", "0", "-",
        "1", "8", ":", "0", "0">>,
      <<"9", "-", "1", "7">>,
      <<"0", "9", "0", "0", "-", "1", "7", "0", "0">>,
      <<"1", "0", ":", "0", "0", " ", "-", " ", "1", "0", ":", "0", "0">>,
      <<"1", "8", EnDash, "2">>,
      <<"7", ":", "3", "0", "-", "2", "3", ":", "3", "0">>,
      <<"1", "2", "-", "3", "0">>,
      <<"5", " ", "p", "m", "-", "9">>,
      <<"M", "o", "-", "F", "r">>,
      <<"o", "f", "f">>,
      <<>> }

\* patient_profile.get_current_time(), lines 76-96: None, or the hour
TimeInfos == {None} \cup {Some(h) : h \in 0..23}

\* the comparison of lines 226-229 without the branch for hours that end
\* after midnight
IsOpenSameDay(open_hour, close_hour, current_hour) ==
    open_hour <= current_hour /\ current_hour < close_hour
IsOpenNow(open_hour, close_hour, current_hour) ==
    IF close_hour < open_hour
    THEN current_hour >= open_hour \/ current_hour < close_hour
    ELSE open_hour <= current_hour /\ current_hour < close_hour

\* the try body, lines 203-239
hours_body(time_info, opening_hours) ==
    IF time_info = None
    THEN Returns([status |-> "unknown", hours_text |-> opening_hours])
    ELSE IF opening_hours = AlwaysOpen
            \/ Within(AlwaysOpen, LowerChars(opening_hours))
    THEN Returns([status |-> "open", is_open_now |-> TRUE,
                  hours_text |-> <<"Open 24 hours">>,
                  opens_at |-> None, closes_at |-> None])
    ELSE LET match == Search(opening_hours)
         IN  IF match # <<>>
             THEN LET open_hour == int(match[1])
                      close_hour == int(match[2])
                      is_open_now ==
                          IsOpenNow(open_hour, close_hour, time_info[1])
                  IN  Returns([status |-> IF is_open_now THEN "open"
                                          ELSE "closed",
                               is_open_now |-> is_open_now,
                               hours_text |-> opening_hours,
                               opens_at |-> Some(Clock(open_hour)),
                               closes_at |-> Some(Clock(close_hour))])
             ELSE Returns([status |-> "unknown", hours_text |-> opening_hours])

_parse_opening_hours(time_info, opening_hours) ==
    TryExcept(hours_body(time_info, opening_hours),
              [status |-> "unknown", hours_text |-> opening_hours])

-----------------------------------------------------------------------------
(* The calls of the lookups: each takes its inputs and the responses of the *)
(* services, and hands its result to the tool function that called it.      *)

LookupInit ==
    /\ call = [fn |-> "none", args |-> <<>>, resps |-> <<>>]
    /\ ret = Gives(None)

CallsGetRoute ==
    /\ \E resp \in RouteResponses :
         /\ call' = [fn |-> "get_route", args |-> <<>>, resps |-> <<resp>>]
         /\ ret' = get_route(resp)
    /\ UNCHANGED <<core, shared, sched>>

CallsGeocode ==
    /\ \E location \in Locations, resp \in GeoResponses :
         /\ call' = [fn |-> "geocode", args |-> <<location>>, resps |-> <<resp>>]
         /\ ret' = geocode(location, resp)
    /\ UNCHANGED <<core, shared, sched>>

CallsCoverage ==
    /\ \E insurance \in Insurances, medication \in Medications,
          resp \in DrugResponses :
         /\ call' = [fn |-> "check_medication_coverage",
                     args |-> <<insurance, medication>>, resps |-> <<resp>>]
         /\ ret' = check_medication_coverage(insurance, medication, resp)
    /\ UNCHANGED <<core, shared, sched>>

CallsInteractions ==
    /\ \E resp \in DrugSearchResponses, resp2 \in InteractionResponses :
         /\ call' = [fn |-> "get_drug_interactions", args |-> <<>>,
                     resps |-> <<resp, resp2>>]
         /\ ret' = get_drug_interactions(resp, resp2)
    /\ UNCHANGED <<core, shared, sched>>

CallsParseHours ==
    /\ \E time_info \in TimeInfos, opening_hours \in HoursTexts :
         /\ call' = [fn |-> "_parse_opening_hours",
                     args |-> <<time_info, opening_hours>>, resps |-> <<>>]
         /\ ret' = _parse_opening_hours(time_info, opening_hours)
    /\ UNCHANGED <<core, shared, sched>>

-----------------------------------------------------------------------------
(* generate_appointments, lines 402-440, as the threads of two chat_fn      *)
(* calls run it.  The module random is one object of the process: seed,     *)
(* sample and choice of all threads act on the same generator state.        *)
(* A date is the number of its day in a year of 365 days.                   *)

FirstStart == 26   \* the earliest day a call is made on
MaxStart == 7      \* the number of days a call may be made on
RaceFrom == 4      \* the slots a call has when the other call arrives
Threads == {"t1", "t2"}

StartDays == FirstStart..(FirstStart + MaxStart - 1)

\* check_date = now + timedelta(days=n); the year starts on a Thursday
DayOfYear(n) == ((n - 1) % 365) + 1
weekday(n) == (n + 2) % 7

MonthEnds == <<31, 59, 90, 120, 151, 181, 212, 243, 273, 304, 334, 365>>
month(n) == CHOOSE m \in 1..12 :
               /\ DayOfYear(n) <= MonthEnds[m]
               /\ \A k \in 1..(m - 1) : DayOfYear(n) > MonthEnds[k]
day(n) == DayOfYear(n) - (IF month(n) = 1 THEN 0 ELSE MonthEnds[month(n) - 1])

\* check_date.strftime("%A, %B %d, %Y"), line 430
DateText(n) ==
    [weekday |-> weekday(n), month |-> month(n), day |-> day(n),
     year |-> (n - 1) \div 365]

\* the argument of random.seed, line 421
SeedOf(n) == day(n) + month(n) * 31

\* the generator: the k-th number below bound after random.seed(seed); it
\* stands for the Mersenne Twister, a fixed function of seed and position
RandBelow(gen, bound) == ((gen.seed * 7919 + gen.n * 104729 + 13) % 1009) % bound
Drawn(gen) == [gen EXCEPT !.n = @ + 1]

Times == <<"9:00 AM", "10:00 AM", "11:00 AM", "2:00 PM", "3:00 PM", "4:00 PM">>
Doctors ==
    << [name |-> "Dr. Sarah Johnson", specialty |-> "Family Medicine"],
       [name |-> "Dr. Michael Chen", specialty |-> "Internal Medicine"],
       [name |-> "Dr. Emily Rodriguez", specialty |-> "Family Medicine"],
       [name |-> "Dr. James Wilson", specialty |-> "Urgent Care"] >>

\* random.sample(population, k=2) for six items: position j of the pool is
\* drawn, and the pool's last item takes its place for the second draw
Sample2(gen, population) ==
    LET n == Len(population)
        j1 == RandBelow(gen, n) + 1
        pool == [population EXCEPT ![j1] = population[n]]
        j2 == RandBelow(Drawn(gen), n - 1) + 1
    IN  <<population[j1], pool[j2]>>

\* random.choice(seq)
Choice(gen, seq) == seq[RandBelow(gen, Len(seq)) + 1]

\* the slots and the days of the loop, line 414
MaxSlots == 6
MaxDays == 10

NoCall == [pc |-> "none", now |-> 0, insurance |-> <<>>, days_checked |-> 0,
           appointments |-> <<>>, times |-> <<>>, slot |-> 0]

ApptInit ==
    /\ rng = [seed |-> 0, n |-> 0]
    /\ appt = [t \in Threads |-> NoCall]

\* the weekend test of line 417, failing for every day
IsWeekendNever(n) == FALSE
IsWeekend(n) == weekday(n) >= 5

\* the call starts on one of the days, lines 403-413; it arrives when the
\* other thread has no call running, or a call that has late slots or more
ApptCall(t, days, late) ==
    /\ appt[t].pc = "none"
    /\ \A u \in Threads \ {t} :
          \/ appt[u].pc \in {"none", "done"}
          \/ Len(appt[u].appointments) >= late
    /\ \E now \in days, insurance \in {<<>>, <<"Aetna">>} :
         appt' = [appt EXCEPT ![t] =
                     [pc |-> "head", now |-> now, insurance |-> insurance,
                      days_checked |-> 0, appointments |-> <<>>,
                      times |-> <<>>, slot |-> 0]]
    /\ UNCHANGED <<rng, core, shared, lookup>>

\* the loop condition, the weekend test and random.seed, lines 414-421
ApptHead(t) ==
    /\ appt[t].pc = "head"
    /\ LET a == appt[t]
           check_date == a.now + a.days_checked + 1
       IN  IF ~(Len(a.appointments) < MaxSlots /\ a.days_checked < MaxDays)
           THEN /\ appt' = [appt EXCEPT ![t].pc = "done"]
                /\ rng' = rng
           ELSE IF IsWeekend(check_date)
           THEN /\ appt' = [appt EXCEPT ![t].days_checked = @ + 1]
                /\ rng' = rng
           ELSE /\ appt' = [appt EXCEPT ![t].pc = "sample"]
                /\ rng' = [seed |-> SeedOf(check_date), n |-> 0]
    /\ UNCHANGED <<core, shared, lookup>>

\* random.sample, line 422
ApptSample(t) ==
    /\ appt[t].pc = "sample"
    /\ appt' = [appt EXCEPT ![t].times = Sample2(rng, Times),
                            ![t].slot = 1,
                            ![t].pc = "choice"]
    /\ rng' = Drawn(Drawn(rng))
    /\ UNCHANGED <<core, shared, lookup>>

\* one pass of the for loop, lines 424-436, and line 438 after the last
ApptChoice(t) ==
    /\ appt[t].pc = "choice"
    /\ LET a == appt[t]
           check_date == a.now + a.days_checked + 1
           last == a.slot = Len(a.times)
       IN  IF Len(a.appointments) >= MaxSlots
           THEN /\ appt' = [appt EXCEPT ![t].pc = "head",
                                        ![t].days_checked = @ + 1]
                /\ rng' = rng
           ELSE /\ appt' = [appt EXCEPT
                    ![t].appointments = Append(@,
                        [date |-> DateText(check_date),
                         time |-> a.times[a.slot],
                         doctor |-> Choice(rng, Doctors).name,
                         specialty |-> Choice(rng, Doctors).specialty,
                         in_network |-> IF a.insurance # <<>> THEN "Yes"
                                        ELSE "Verify"]),
                    ![t].slot = IF last THEN 0 ELSE @ + 1,
                    ![t].pc = IF last THEN "head" ELSE "choice",
                    ![t].days_checked = IF last THEN @ + 1 ELSE @]
                /\ rng' = Drawn(rng)
    /\ UNCHANGED <<core, shared, lookup>>

-----------------------------------------------------------------------------
(* The state after the module is loaded and create_ui has run *)

Init == CoreInit /\ SharedQuiet /\ LookupInit /\ ApptInit

-----------------------------------------------------------------------------
(* The handlers of one caller *)

\* chat_fn, lines 864-925: scan, clean-up, return
Return(msgs, message) ==
    LET r == ChatFnResult(msgs)
    IN  /\ result' = r
        /\ history' = history \o <<UserEntry(message), AssistantEntry(r.text)>>
        /\ pc' = "idle"
        /\ outcome' = "ok"

\* chat_fn with a blank message, lines 847-848
BlankMessage ==
    /\ UNCHANGED <<shared, lookup, sched>>
    /\ pc = "idle"
    /\ result' = [text |-> <<>>, crisis |-> FALSE, emergency |-> FALSE]
    /\ outcome' = "blank"
    /\ UNCHANGED <<cache, history, chat, pc, rnd, speaker, elig, prev, curMsg,
                   roundStart>>

\* chat_fn, lines 850-862: get_agents(reset=is_new), then initiate_chat takes
\* the user's message in as the first message of the run
StartRound(texts, cap) ==
    /\ UNCHANGED <<shared, lookup, sched>>
    /\ pc = "idle"
    /\ Len(history) < 2 * MaxSends
    /\ \E message \in texts :
         LET is_new == history = <<>>
             base == IF is_new \/ ~cache THEN <<>> ELSE chat
             m == Msg(User, message, NoTool)
         IN  /\ Len(base) < cap
             /\ cache' = TRUE
             /\ curMsg' = message
             /\ roundStart' = Len(base)
             /\ chat' = Append(base, m)
             /\ rnd' = 1
             /\ speaker' = User
             /\ prev' = NoSpeaker
             /\ elig' = {}
             /\ IF RoundOver(m, 1)
                THEN Return(Append(base, m), message)
                ELSE /\ pc' = "running"
                     /\ UNCHANGED <<history, result, outcome>>

\* one pass of the run: a speaker is selected, speaks, and its message is
\* taken in and checked; a turn after a tool call is the tool's response
AgentTurn(roles, rep, cap) ==
    /\ UNCHANGED <<shared, lookup, sched>>
    /\ pc = "running"
    /\ Len(chat) < cap
    /\ LET lastMsg == chat[Len(chat)]
           cands == Candidates(speaker, lastMsg)
       IN  \E a \in (cands \cap roles) \ {User} :
             \E r \in (IF lastMsg.tool # NoTool THEN {Say(<<TJson>>)}
                       ELSE rep[a]) :
               LET m == Msg(a, r.content, r.tool)
               IN  /\ chat' = Append(chat, m)
                   /\ rnd' = rnd + 1
                   /\ prev' = speaker
                   /\ speaker' = a
                   /\ elig' = cands
                   /\ UNCHANGED <<cache, curMsg, roundStart>>
                   /\ IF RoundOver(m, rnd + 1)
                      THEN Return(Append(chat, m), curMsg)
                      ELSE /\ pc' = "running"
                           /\ UNCHANGED <<history, result, outcome>>

\* the User agent is selected: it has no reply, and the run ends
SelectUser ==
    /\ UNCHANGED <<shared, lookup, sched>>
    /\ pc = "running"
    /\ LET cands == Candidates(speaker, chat[Len(chat)])
       IN  /\ User \in cands
           /\ prev' = speaker
           /\ speaker' = User
           /\ elig' = cands
    /\ Return(chat, curMsg)
    /\ UNCHANGED <<cache, chat, rnd, curMsg, roundStart>>

\* GenerationFails answering with the apology but dropping the roster and
\* the user's entry
GenerationFailsDrops ==
    /\ UNCHANGED <<shared, lookup, sched>>
    /\ pc = "running"
    /\ result' = ApologyResult
    /\ history' = history \o <<AssistantEntry(<<TApology>>)>>
    /\ cache' = FALSE
    /\ pc' = "idle"
    /\ outcome' = "error"
    /\ UNCHANGED <<chat, rnd, speaker, elig, prev, curMsg, roundStart>>

\* a call of the generation service raises: chat_fn's except branch,
\* lines 927-934
GenerationFails ==
    /\ UNCHANGED <<shared, lookup, sched>>
    /\ pc = "running"
    /\ result' = ApologyResult
    /\ history' = history \o <<UserEntry(curMsg), AssistantEntry(<<TApology>>)>>
    /\ pc' = "idle"
    /\ outcome' = "error"
    /\ UNCHANGED <<cache, chat, rnd, speaker, elig, prev, curMsg, roundStart>>

\* clear_chat, lines 936-938
clear_chat ==
    /\ UNCHANGED <<shared, lookup, sched>>
    /\ pc = "idle"
    /\ cache' = FALSE
    /\ history' = <<>>
    /\ chat' = <<>>
    /\ result' = [text |-> <<>>, crisis |-> FALSE, emergency |-> FALSE]
    /\ outcome' = "clear"
    /\ UNCHANGED <<pc, rnd, speaker, elig, prev, curMsg, roundStart>>

Next ==
    \/ BlankMessage
    \/ StartRound(UserTexts, MaxChat)
    \/ AgentTurn(GroupAgents, [a \in GroupAgents |-> Repertoire(a)], MaxChat)
    \/ SelectUser
    \/ GenerationFails
    \/ clear_chat

Spec == Init /\ [][Next]_vars

\* the runs in which no role's message ends the round, to the round cap
NextCap ==
    \/ StartRound(CapTexts, max_round + MaxSends)
    \/ AgentTurn(CapRoles, [a \in CapRoles |-> CapRepertoire(a)],
                 max_round + MaxSends)
    \/ SelectUser
    \/ GenerationFails
    \/ clear_chat

SpecCap == Init /\ [][NextCap]_vars

\* the runs of one turn in which the coordinator's content is any sequence of
\* the fragments of the hand-off phrases, blanks and ordinary text
CleanAlphabet ==
    {TPre, TPharm, TTime, TMed, TAppt, TSG1, TSG2, TET1, TET2, TSp, TText}
CleanContents == UNION {[1..n -> CleanAlphabet] : n \in 1..MaxLen}
CleanRoles == {HealthCoordinator}

NextClean ==
    \/ StartRound(CapTexts, CleanTurns + 1)
    \/ AgentTurn(CleanRoles, [a \in CleanRoles |-> {Say(c) : c \in CleanContents}],
                 CleanTurns + 1)
    \/ SelectUser
    \/ GenerationFails
    \/ clear_chat

SpecClean == Init /\ [][NextClean]_vars

\* the runs in which any role's content holds any of the texts
\* is_termination_msg looks for, or none of them
MarkAlphabet == {T988, TWarn, T911, TQ, TPre}
RECURSIVE Listed(_)
Listed(S) ==
    IF S = {} THEN <<>>
    ELSE LET x == CHOOSE y \in S : TRUE IN <<x>> \o Listed(S \ {x})
MarkContents == {Listed(S) : S \in SUBSET MarkAlphabet}
MarkRoles == GroupAgents \ {User}
MarkTexts == {<<TText>>, <<TUserProvided>>, <<TText, TQ>>, <<T988>>}

NextMarks ==
    \/ StartRound(MarkTexts, CleanTurns + 1)
    \/ AgentTurn(MarkRoles, [a \in MarkRoles |-> {Say(c) : c \in MarkContents}],
                 CleanTurns + 1)
    \/ SelectUser
    \/ GenerationFails
    \/ clear_chat

SpecMarks == Init /\ [][NextMarks]_vars

\* the runs in which a specialist's turn may ask for any of the six tools
AllTools == UNION {FunctionMap(a) : a \in GroupAgents}
ToolRepertoire(a) ==
    IF a \in Specialists
    THEN {Say(<<TText>>)} \cup {Call(t) : t \in AllTools}
    ELSE {Say(<<TText>>)}
ToolRoles == {HealthCoordinator} \cup Specialists

NextTools ==
    \/ StartRound(CapTexts, MaxChat)
    \/ AgentTurn(ToolRoles, [a \in ToolRoles |-> ToolRepertoire(a)], MaxChat)
    \/ SelectUser
    \/ GenerationFails
    \/ clear_chat

SpecTools == Init /\ [][NextTools]_vars

\* several callers of the one UI: their chat_fn and clear_chat calls,
\* interleaved as the UI's listeners let them run
NextShared ==
    \/ \E c \in Callers : CallerSends(c)
    \/ \E c \in Callers : CallerGetsReply(c)
    \/ \E c \in Callers : CallerGetsApology(c)
    \/ \E c \in Callers : CallerClears(c)

SpecShared == Init /\ [][NextShared]_vars

\* the profile store from the load on, and the save_settings calls of the
\* callers, interleaved as the UI's listener lets them run
InitShared == CoreInit /\ SharedInit /\ LookupInit /\ ApptInit

NextProfile ==
    \/ \E c \in Callers : SaveStarts(c)
    \/ \E c \in Callers : SaveStep(c)

SpecProfile == InitShared /\ [][NextProfile]_vars

\* the chat_fn and clear_chat calls of one caller together with the
\* save_settings calls another caller makes on the settings tab, interleaved
\* as the UI's listeners let them run: chat_fn and save_settings are bound
\* to different listeners, so a save may be part-way when a chat_fn call
\* starts; the settings are saved once
Talker == "c1"
Saver == "c2"

NextSettings ==
    \/ CallerSends(Talker)
    \/ CallerGetsReply(Talker)
    \/ CallerGetsApology(Talker)
    \/ CallerClears(Talker)
    \/ savePc[Saver].done = 0 /\ SaveStarts(Saver)
    \/ SaveStep(Saver)

SpecSettings == Init /\ [][NextSettings]_vars

\* the lookups applied to their inputs and to the services' responses
NextLookup ==
    \/ CallsGetRoute
    \/ CallsGeocode
    \/ CallsCoverage
    \/ CallsInteractions
    \/ CallsParseHours

SpecLookup == Init /\ [][NextLookup]_vars

\* generate_appointments called twice, the second call after the first has
\* returned, on any two of the days
NextAppt ==
    \/ \E t \in Threads : ApptCall(t, StartDays, MaxSlots)
    \/ \E t \in Threads : ApptHead(t)
    \/ \E t \in Threads : ApptSample(t)
    \/ \E t \in Threads : ApptChoice(t)

SpecAppt == Init /\ [][NextAppt]_vars

\* generate_appointments in the threads of two chat_fn calls, the second
\* call arriving on the same day while the first is at its last date
NextApptRace ==
    \/ \E t \in Threads : ApptCall(t, {FirstStart}, RaceFrom)
    \/ \E t \in Threads : ApptHead(t)
    \/ \E t \in Threads : ApptSample(t)
    \/ \E t \in Threads : ApptChoice(t)

SpecApptRace == Init /\ [][NextApptRace]_vars

-----------------------------------------------------------------------------
(* Claims *)

\* the messages taken in during the current run
RoundSlice == SubSeq(chat, roundStart + 1, Len(chat))

\* C1: in every run the round counter never exceeds 30, the run takes in at
\* most 30 messages, and no run is still going once 30 messages are in, also
\* when no message satisfies is_termination_msg.
C1_RoundCap ==
    /\ rnd <= max_round
    /\ Len(RoundSlice) <= max_round
    /\ (pc = "running" => rnd < max_round)

\* a run that stopped at the cap with no terminating message in it
C1_Witness ==
    /\ pc = "idle"
    /\ outcome = "ok"
    /\ rnd = max_round
    /\ Len(RoundSlice) = max_round
    /\ \A k \in 1..Len(RoundSlice) : ~is_termination_msg(RoundSlice[k])

LastMsg == chat[Len(chat)]

\* C2 (as claimed): whenever the newest message of the run is the safety
\* role's and contains "988", the run has ended on it and chat_fn returned
\* crisis = TRUE, emergency = FALSE and that message's cleaned-up content,
\* which still contains "988".
C2_Original ==
    (Len(chat) > roundStart /\ IsCrisis(LastMsg)) =>
        /\ pc = "idle"
        /\ outcome = "ok" =>
             /\ result.crisis
             /\ ~result.emergency
             /\ result.text = CleanUp(LastMsg.content)
             /\ Has(result.text, T988)

\* C3 (as claimed): within one run, after a message the program takes for a
\* crisis (safety role, "988") or for an emergency (emergency role, warning
\* sign and "911" or "ER"), no coordinator or specialist message follows.
C3_Original ==
    \A j \in 1..Len(RoundSlice) : \A k \in 1..Len(RoundSlice) :
        (j < k /\ (IsCrisis(RoundSlice[j]) \/ IsEmergency(RoundSlice[j])))
            => RoundSlice[k].name \notin NormalAgents

\* C4: a role speaks twice in immediate succession only when it was the only
\* candidate of the selection (it alone can run the tool call it just made).
C4_NoRepeat ==
    /\ (prev # NoSpeaker /\ speaker = prev) => elig = {prev}
    /\ \A k \in 1..(Len(RoundSlice) - 1) :
          RoundSlice[k + 1].name = RoundSlice[k].name =>
              Candidates(RoundSlice[k].name, RoundSlice[k]) = {RoundSlice[k].name}

\* a run of three messages or more, the latest by the speaker before it
C4_Witness ==
    /\ Len(RoundSlice) >= 3
    /\ prev # NoSpeaker
    /\ speaker = prev
    /\ LastMsg.name = speaker

\* C5 (as claimed): what chat_fn returns is what the scan yields on the
\* messages of the current run alone.
C5_Original ==
    (pc = "idle" /\ outcome = "ok") => result = ChatFnResult(RoundSlice)

\* the reference rule of C6: a qualifying crisis message first, else a
\* qualifying emergency message, else the newest qualifying ordinary message
Considered(m) == m.name # User /\ m.content # <<>> /\ ~HasToolLog(m.content)
Ordinary(m) ==
    m.name \in NormalAgents /\ ~IsClearance(m.content) /\ StrLen(m.content) > 10
Newest(S) == IF S = {} THEN 0 ELSE CHOOSE k \in S : \A j \in S : j <= k
PriorityPicked(msgs) ==
    LET crisisAt == {k \in 1..Len(msgs) : Considered(msgs[k]) /\ IsCrisis(msgs[k])}
        emergencyAt ==
            {k \in 1..Len(msgs) : Considered(msgs[k]) /\ IsEmergency(msgs[k])}
        ordinaryAt == {k \in 1..Len(msgs) : Considered(msgs[k]) /\ Ordinary(msgs[k])}
    IN  IF crisisAt # {} THEN Newest(crisisAt)
        ELSE IF emergencyAt # {} THEN Newest(emergencyAt)
        ELSE Newest(ordinaryAt)
PriorityResult(msgs) ==
    LET k == PriorityPicked(msgs)
    IN  [text |-> CleanUp(IF k = 0 THEN <<TFallback>> ELSE msgs[k].content),
         crisis |-> k # 0 /\ IsCrisis(msgs[k]),
         emergency |-> k # 0 /\ IsEmergency(msgs[k])]

\* C6 (as claimed): in the first run of a conversation, where the transcript
\* is the run's messages, chat_fn returns what the priority rule crisis >
\* emergency > ordinary yields, whatever the order of the messages.
C6_Original ==
    (pc = "idle" /\ outcome = "ok" /\ roundStart = 0) =>
        result = PriorityResult(RoundSlice)

\* C7 (as claimed): the reply is never taken from a user message, an empty
\* message, a tool-log entry, a clearance message or an ordinary message of
\* 10 characters or fewer; with no message picked it is the fallback prompt
\* with both flags FALSE.
C7_Original ==
    (pc = "idle" /\ outcome = "ok") =>
        LET k == Picked(chat)
        IN  IF k = 0
            THEN result = [text |-> <<TFallback>>, crisis |-> FALSE,
                           emergency |-> FALSE]
            ELSE /\ chat[k].name # User
                 /\ chat[k].content # <<>>
                 /\ ~HasToolLog(chat[k].content)
                 /\ ~IsClearance(chat[k].content)
                 /\ (chat[k].name \in NormalAgents => StrLen(chat[k].content) > 10)

\* C9: when a run raises, chat_fn returns the apology with both flags FALSE,
\* appends the user's message and the apology to the history, keeps the
\* cached roster and the transcript; the next chat_fn call starts a run of
\* its own on that roster, its round counter back at 1.
C9_Recoverable ==
    [][/\ (pc = "running" /\ pc' = "idle" /\ outcome' = "error") =>
            /\ result' = ApologyResult
            /\ history' = history \o
                   <<UserEntry(curMsg), AssistantEntry(<<TApology>>)>>
            /\ cache /\ cache'
            /\ chat' = chat
       /\ (outcome = "error" /\ pc = "idle" /\ chat' # chat /\ cache' ) =>
            /\ cache
            /\ rnd' = 1
            /\ roundStart' = Len(chat)
            /\ chat' = Append(chat, Msg(User, curMsg', NoTool))
      ]_vars

\* a run that raised, and after it a run that returned a reply
C9_Witness ==
    /\ pc = "idle"
    /\ outcome = "ok"
    /\ Len(history) = 4
    /\ history[2] = AssistantEntry(<<TApology>>)
    /\ cache
    /\ roundStart > 0

\* C10 (as claimed): when a call of the generation service fails in a run,
\* chat_fn returns the reply and flags the scan yields on the messages the
\* run had taken in.
C10_Original ==
    (pc = "idle" /\ outcome = "error") => result = ChatFnResult(RoundSlice)

\* p in s, for a searched text p of several fragments
HasPhrase(s, p) ==
    \E k \in 1..(Len(s) - Len(p) + 1) : SubSeq(s, k, k + Len(p) - 1) = p

\* C8 (as claimed): whenever a message is picked as the reply, the returned
\* text contains none of the six hand-off phrases.
C8_Original ==
    (pc = "idle" /\ outcome = "ok" /\ Picked(chat) # 0) =>
        \A k \in 1..Len(HandoffPhrases) : ~HasPhrase(result.text, HandoffPhrases[k])

\* the roster and the transcript caller d's Session is using: d has a
\* conversation going and its latest chat_fn call ran on the cached roster
InUse(d) ==
    /\ sess[d].history # <<>>
    /\ sess[d].ref # 0
    /\ sess[d].ref = cacheRef

\* C11: a handler step taken for one caller never replaces or empties the
\* cached roster another caller's Session is using, and never appends to
\* that roster's transcript
C11_Original ==
    [][\A d \in Callers :
          (actor' # d /\ InUse(d))
              => /\ cacheRef' = cacheRef
                 /\ agents'[cacheRef].chat = agents[cacheRef].chat]_vars

\* C12: whenever no setter is between its write and its save, the file
\* holds the in-memory profile; this includes the state right after the load
C12_Original ==
    (\A c \in Callers : savePc[c].step \notin {2, 4, 6, 8})
        => disk = _save(profile)

\* the save_settings calls that are running
Saving == {c \in Callers : savePc[c].step # 0}

Failed(resp) == resp.fault \/ resp.status # 200 \/ ~resp.json

\* a JSON body of another shape than the handler reads
RouteMalformed(resp) ==
    resp.json /\
    LET b == resp.body[1]
    IN  \/ ~IsObject(b)
        \/ /\ HasKey(b, "routes")
           /\ b.fields[1].routes # <<>>
           /\ LET r == b.fields[1].routes[1]
              IN  \/ {"distance", "duration"} \ DOMAIN r # {}
                  \/ ~r.distance.isnum
                  \/ ~r.duration.isnum
GeoMalformed(resp) ==
    resp.json /\
    LET b == resp.body[1]
    IN  \/ IsObject(b)
        \/ /\ b.items # <<>>
           /\ LET e == b.items[1]
              IN  \/ {"lat", "lon"} \ DOMAIN e # {}
                  \/ ~CanFloat(e.lat)
                  \/ ~CanFloat(e.lon)
DrugMalformed(resp) ==
    resp.json /\
    LET b == resp.body[1]
    IN  \/ ~IsObject(b)
        \/ /\ HasKey(b, "results")
           /\ b.fields[1].results # <<>>
           /\ "product_type" \in DOMAIN b.fields[1].results[1]
           /\ b.fields[1].results[1].product_type = <<>>
InteractionsMalformed(resp) ==
    resp.json /\
    LET b == resp.body[1]
    IN  \/ ~IsObject(b)
        \/ /\ HasKey(b, "interactionTypeGroup")
           /\ \E e \in {Flatten(Take(b.fields[1].interactionTypeGroup[1], 5))[i] :
                        i \in 1..Len(Flatten(Take(
                                 b.fields[1].interactionTypeGroup[1], 5)))} :
                 /\ Len(e.interactionConcept) > 1
                 /\ ~e.interactionConcept[2].dict

\* the first lookup of get_drug_interactions names a drug to ask about
NamesDrug(resp) ==
    /\ ~Failed(resp)
    /\ HasKey(resp.body[1], "drugGroup")
    /\ "conceptProperties" \in DOMAIN resp.body[1].fields[1].drugGroup
    /\ resp.body[1].fields[1].drugGroup.conceptProperties # <<>>
    /\ "rxcui" \in DOMAIN resp.body[1].fields[1].drugGroup.conceptProperties[1]

ClassifiedOtc(resp) ==
    /\ ~Failed(resp)
    /\ HasKey(resp.body[1], "results")
    /\ resp.body[1].fields[1].results # <<>>
    /\ ~DrugMalformed(resp)
    /\ IsOtc(resp.body[1].fields[1].results[1])

\* C15: for a drug classified over-the-counter the answer is the one every
\* other insurance would have got: not covered, copay "$0-$15", no
\* prescription
C15_Independent ==
    (call.fn = "check_medication_coverage" /\ ClassifiedOtc(call.resps[1]))
        => /\ \A other \in Insurances :
                 check_medication_coverage(other, call.args[2], call.resps[1])
                     = ret
           /\ ret.value[1].covered = "OTC - Generally not covered"
           /\ ret.value[1].copay = "$0-$15 (out of pocket)"
           /\ ret.value[1].prescription_required = FALSE

\* an over-the-counter drug asked about under a major insurer
C15_Witness ==
    /\ call.fn = "check_medication_coverage"
    /\ ClassifiedOtc(call.resps[1])
    /\ IsMajor(call.args[1])
    /\ ret.value[1].prescription_required = FALSE

\* the rule of the opening-hours status
ReferenceStatus(text, hour) ==
    IF Within(AlwaysOpen, text) THEN "open"
    ELSE LET pair == Search(text)
         IN  IF pair = <<>> THEN "unknown"
             ELSE LET open == int(pair[1])
                      close == int(pair[2])
                  IN  IF close < open
                      THEN IF hour >= open \/ hour < close THEN "open"
                           ELSE "closed"
                      ELSE IF open <= hour /\ hour < close THEN "open"
                           ELSE "closed"

\* C19: for every hours text and every current hour the status is the one
\* of the rule, and the parser hands no exception to its caller
C19_Reference ==
    (call.fn = "_parse_opening_hours" /\ call.args[1] # None)
        => /\ ~ret.raised
           /\ ret.value[1].status =
                  ReferenceStatus(call.args[2], call.args[1][1])

\* hours that end after midnight, asked about late in the evening
C19_Witness ==
    /\ call.fn = "_parse_opening_hours"
    /\ call.args[1] = Some(23)
    /\ Search(call.args[2]) # <<>>
    /\ int(Search(call.args[2])[2]) < int(Search(call.args[2])[1])
    /\ ret.value[1].status = "open"

\* the slots a call has produced for a date, in the order produced
RECURSIVE SlotsOn(_, _)
SlotsOn(apps, date) ==
    IF apps = <<>> THEN <<>>
    ELSE IF Head(apps).date = date
         THEN <<[time |-> Head(apps).time, doctor |-> Head(apps).doctor]>>
              \o SlotsOn(Tail(apps), date)
         ELSE SlotsOn(Tail(apps), date)
DatesOf(apps) == {apps[i].date : i \in 1..Len(apps)}

\* C16: two calls that have returned agree, on every date both produced
\* slots for, about the times and the doctors of that date
C16_Original ==
    \A t, u \in Threads :
        (appt[t].pc = "done" /\ appt[u].pc = "done")
            => \A date \in DatesOf(appt[t].appointments)
                             \cap DatesOf(appt[u].appointments) :
                   SlotsOn(appt[t].appointments, date)
                       = SlotsOn(appt[u].appointments, date)

\* the days a call has scanned so far that are business days
BusinessDays(a) ==
    Cardinality({k \in 1..a.days_checked : weekday(a.now + k) < 5})

\* C20: a call's slots are on weekdays only; a business day the call has
\* finished with has exactly two slots, at two different times; there are
\* never more than six slots; and the call goes on exactly as long as it has
\* fewer than six slots and has scanned fewer than ten business days
C20_Slots ==
    \A t \in Threads :
        LET a == appt[t]
            apps == a.appointments
        IN  /\ \A i \in 1..Len(apps) : apps[i].date.weekday < 5
            /\ Len(apps) <= 6
            /\ \A date \in DatesOf(apps) :
                   LET slots == SlotsOn(apps, date)
                   IN  /\ Len(slots) <= 2
                       /\ a.pc \in {"head", "done"} => Len(slots) = 2
                       /\ Len(slots) = 2 => slots[1].time # slots[2].time
            /\ a.pc = "head" =>
                   ((Len(apps) < MaxSlots /\ a.days_checked < MaxDays)
                        <=> (Len(apps) < 6 /\ BusinessDays(a) < 10))
            /\ a.pc = "done" => (Len(apps) = 6 \/ BusinessDays(a) = 10)
            /\ a.pc \in {"sample", "choice"} =>
                   (Len(apps) < 6 /\ BusinessDays(a) < 10)

\* a call that started on a Thursday has returned: it skipped the weekend
\* and has its six slots on three business days
C20_Witness ==
    \E t \in Threads :
        /\ appt[t].pc = "done"
        /\ weekday(appt[t].now) = 3
        /\ Len(appt[t].appointments) = 6
        /\ BusinessDays(appt[t]) = 3
        /\ appt[t].days_checked = 5

\* the four stop conditions
TerminationRule(name, content) ==
    \/ name = "SafetyGuardrail" /\ T988 \in {content[i] : i \in DOMAIN content}
    \/ /\ name = "EmergencyTriage"
       /\ TWarn \in {content[i] : i \in DOMAIN content}
       /\ T911 \in {content[i] : i \in DOMAIN content}
    \/ name = "HealthCoordinator" /\ TQ \in {content[i] : i \in DOMAIN content}
    \/ \E i \in DOMAIN content : content[i] \in {TPre, TUserProvided}

\* C17: is_termination_msg is true of a message exactly when one of the four
\* stop conditions holds of its speaker and content, and a run goes on only
\* after a message none of them holds of
C17_Termination ==
    /\ \A k \in 1..Len(chat) :
          is_termination_msg(chat[k])
              <=> TerminationRule(chat[k].name, chat[k].content)
    /\ pc = "running"
          => ~TerminationRule(chat[Len(chat)].name, chat[Len(chat)].content)

\* the coordinator has asked a question that names neither hotline, and the
\* run has ended on it
C17_Witness ==
    /\ pc = "idle"
    /\ outcome = "ok"
    /\ Len(chat) = 2
    /\ chat[2].name = HealthCoordinator
    /\ chat[2].content = Listed({TQ})

\* the tool calls of the transcript that a response follows
Executed == {k \in 1..(Len(chat) - 1) : chat[k].tool # NoTool}

\* C18: a tool call that is executed names a tool of the capability set
\* bound to the role that made the call
C18_Original ==
    \A k \in Executed : chat[k].tool \in FunctionMap(chat[k].name)

\* a transcript message the scan of chat_fn would flag
Alerting(k) ==
    /\ ~HasToolLog(chat[k].content)
    /\ IsCrisis(chat[k]) \/ IsEmergency(chat[k])

\* C21: what a chat_fn call returns never has the crisis flag and the
\* emergency flag both set
C21_OneFlag == ~(result.crisis /\ result.emergency)

\* a call has returned with one flag set from a transcript that holds a
\* crisis message and an emergency message
C21_Witness ==
    /\ pc = "idle" /\ outcome = "ok"
    /\ result.crisis # result.emergency
    /\ \E j \in 1..Len(chat) : Alerting(j) /\ IsCrisis(chat[j])
    /\ \E j \in 1..Len(chat) : Alerting(j) /\ IsEmergency(chat[j])

\* C22 (as claimed): the message a returned call was flagged for satisfies
\* is_termination_msg, and it is the last message of its run: nothing
\* follows it in the transcript but the user's next message
C22_Original ==
    (pc = "idle" /\ outcome = "ok" /\ (result.crisis \/ result.emergency)) =>
        LET k == Picked(chat)
        IN  /\ is_termination_msg(chat[k])
            /\ k = Len(chat) \/ chat[k + 1].name = User

\* caller c's chat_fn call hands its message to initiate_chat in this step
RoundStarts(c) == sess[c].pc = "idle" /\ sess'[c].pc = "running"

\* C23 (as claimed): when a run starts, the patient info in the directives
\* of the roster the call runs on is that of the profile as it is then
C23_Original ==
    [][\A c \in Callers :
          RoundStarts(c) =>
              agents'[sess'[c].ref].info = NewRoster(profile').info]_vars

====
